---- MODULE Spec2Model ----
(***************************************************************************)
(* Model of the fuel pump canister of src/src/index.ts: a map from id to   *)
(* FuelPump record and the eight exported operations on it.                *)
(***************************************************************************)
EXTENDS Integers, Sequences, FiniteSets, TLC

(* ------------------------------ bounds -------------------------------- *)
\* number of ids uuidv4() hands out in a run
MaxIds == 2
\* number of pumps stored at the same time
MaxLive == 1
\* largest value of the clock ic.time()
MaxTime == 1
\* longest transactions vector of a pump
MaxTx == 1
\* largest quantity a caller passes
MaxQty == 1

(* ------------------------- numbers (float64) --------------------------- *)
\* the float64 NaN, kept apart from every integer the model uses
NaN == -999

IsNaN(x) == x = NaN

\* a < b on numbers: every comparison with NaN is false
Lt(a, b) == ~IsNaN(a) /\ ~IsNaN(b) /\ a < b

\* a <= b on numbers
Leq(a, b) == ~IsNaN(a) /\ ~IsNaN(b) /\ a <= b

\* a - b on numbers, as in  fuelPump.fuelQuantity -= quantity
Sub(a, b) == IF IsNaN(a) \/ IsNaN(b) THEN NaN ELSE a - b

\* !x is false: a number is truthy unless it is 0 or NaN
TruthyNum(x) == ~IsNaN(x) /\ x # 0

\* a string is truthy unless it is empty
TruthyStr(s) == s # ""

(* --------------------------- input domains ----------------------------- *)
Ids == 1..MaxIds
Callers == {"alice", "bob"}
\* the caller field of a call that does not read ic.caller()
NoCaller == ""
Quantities == (-1..MaxQty) \cup {NaN}
Statuses == {"Active", "Maintenance"}

Payload(n, t, q) == [pumpNumber |-> n, fuelType |-> t, fuelQuantity |-> q]

\* FuelPumpPayload: the payloads that pass the checks of create, the ones
\* that pass only those of update, and the ones with a falsy field
Payloads ==
  {Payload(1, "Diesel", MaxQty), Payload(1, "Premium", MaxQty), Payload(1, "Diesel", -1),
   Payload(1, "Diesel", 0), Payload(1, "Diesel", NaN),
   Payload(0, "Diesel", MaxQty), Payload(1, "", MaxQty),
   Payload(0, "Diesel", -1)}

NoPayload == Payload(0, "", 0)

(* ------------------------------- state --------------------------------- *)
\* fuelPumpStorage: the StableBTreeMap; now: ic.time(); nextId: the ids
\* uuidv4() has handed out; call: the call that completed last;
\* removed: the ids deleteFuelPump has removed; created: the ids
\* createFuelPump has stored
VARIABLES fuelPumpStorage, now, nextId, call, removed, created

vars == <<fuelPumpStorage, now, nextId, call, removed, created>>

\* Opt.None and Opt.Some(x)
None == <<>>
Some(x) == <<x>>

\* fuelPumpStorage.get(id) as an Opt
StorageGet(id) == IF id \in DOMAIN fuelPumpStorage THEN Some(fuelPumpStorage[id]) ELSE None

\* mutant: the insert writes the value under every key
StorageInsert_Everywhere(key, value) ==
  [k \in DOMAIN fuelPumpStorage \cup {key} |-> value]

\* fuelPumpStorage.insert(key, value)
StorageInsert(key, value) ==
  [k \in DOMAIN fuelPumpStorage \cup {key} |-> IF k = key THEN value ELSE fuelPumpStorage[k]]

\* mutant: an insert that throws has written the value all the same
RejectedInsert_Written(key, value) == StorageInsert(key, value)

\* the map after fuelPumpStorage.insert(key, value) threw: the value the
\* handler built is its own copy and the map is as it was
RejectedInsert(key, value) == fuelPumpStorage

\* fuelPumpStorage.remove(key)
StorageRemove(key) == [k \in DOMAIN fuelPumpStorage \ {key} |-> fuelPumpStorage[k]]

RECURSIVE ValuesFrom(_)
ValuesFrom(k) ==
  IF k >= nextId THEN <<>>
  ELSE IF k \in DOMAIN fuelPumpStorage THEN <<fuelPumpStorage[k]>> \o ValuesFrom(k + 1)
  ELSE ValuesFrom(k + 1)

\* mutant: the listing starts after the first key
StorageValues_SkipsFirst == ValuesFrom(2)

\* fuelPumpStorage.values(): the stored records in key order
StorageValues == ValuesFrom(1)

\* the record of the call that completed last: its arguments, the clock, the
\* stored record it found (pre), the kind of result and the value returned
Call(op, id, caller, payload, quantity, status, pre, kind, value, txs) ==
  [op |-> op, id |-> id, caller |-> caller, payload |-> payload,
   quantity |-> quantity, status |-> status, time |-> now, pre |-> pre,
   kind |-> kind, value |-> value, txs |-> txs]

Init ==
  /\ fuelPumpStorage = << >>
  /\ now = 0
  /\ nextId = 1
  /\ removed = {}
  /\ created = {}
  /\ call = [op |-> "none", id |-> 0, caller |-> NoCaller, payload |-> NoPayload,
             quantity |-> 0, status |-> "", time |-> 0, pre |-> None,
             kind |-> "Ok", value |-> <<>>, txs |-> <<>>]

(* ----------------------------- operations ------------------------------ *)
\* mutant: the fuelType check is left out
InvalidPayload_NoFuelType(payload) ==
  \/ ~TruthyNum(payload.pumpNumber)
  \/ ~TruthyNum(payload.fuelQuantity)

\* the payload check shared by create and update
InvalidPayload(payload) ==
  \/ ~TruthyNum(payload.pumpNumber)
  \/ ~TruthyStr(payload.fuelType)
  \/ ~TruthyNum(payload.fuelQuantity)

\* payload.fuelQuantity <= 0
NotPositive(payload) == Leq(payload.fuelQuantity, 0)

\* mutant: the generator hands out the smallest id that is not stored
uuidv4_Reused == CHOOSE i \in Ids : i \notin DOMAIN fuelPumpStorage /\
                   \A j \in Ids : j \notin DOMAIN fuelPumpStorage => i <= j

\* uuidv4(): an id that was never handed out before
uuidv4 == nextId

\* mutant: the new record is stamped as updated at creation
NewFuelPump_Stamped(id, payload) ==
  [id |-> id, createdAt |-> now, updatedAt |-> <<now>>, status |-> "Active",
   transactions |-> <<>>, pumpNumber |-> payload.pumpNumber,
   fuelType |-> payload.fuelType, fuelQuantity |-> payload.fuelQuantity]

\* the record createFuelPump builds
NewFuelPump(id, payload) ==
  [id |-> id, createdAt |-> now, updatedAt |-> None, status |-> "Active",
   transactions |-> <<>>, pumpNumber |-> payload.pumpNumber,
   fuelType |-> payload.fuelType, fuelQuantity |-> payload.fuelQuantity]

\* storeOk: whether fuelPumpStorage.insert returns rather than throws
createFuelPump(payload, storeOk) ==
  /\ UNCHANGED <<now, removed>>
  /\ IF InvalidPayload(payload)
     THEN /\ call' = Call("create", 0, NoCaller, payload, 0, "", None,
                          "InvalidInput", <<>>, <<>>)
          /\ UNCHANGED <<fuelPumpStorage, nextId, created>>
     ELSE IF NotPositive(payload)
     THEN /\ call' = Call("create", 0, NoCaller, payload, 0, "", None, "Fault", <<>>, <<>>)
          /\ UNCHANGED <<fuelPumpStorage, nextId, created>>
     ELSE /\ nextId' = nextId + 1
          /\ LET fuelPump == NewFuelPump(uuidv4, payload) IN
             IF storeOk
             THEN /\ fuelPumpStorage' = StorageInsert(fuelPump.id, fuelPump)
                  /\ created' = created \cup {fuelPump.id}
                  /\ call' = Call("create", fuelPump.id, NoCaller, payload, 0, "",
                                  StorageGet(fuelPump.id), "Ok", <<fuelPump>>, <<>>)
             ELSE /\ call' = Call("create", fuelPump.id, NoCaller, payload, 0, "",
                                  StorageGet(fuelPump.id), "StorageError", <<>>, <<>>)
                  /\ fuelPumpStorage' = RejectedInsert(fuelPump.id, fuelPump)
                  /\ UNCHANGED created

\* the result of getFuelPump(id) in the current state
GetKind(id) == IF StorageGet(id) = None THEN "NotFound" ELSE "Ok"
GetValue(id) == StorageGet(id)

getFuelPump(id) ==
  /\ call' = Call("get", id, NoCaller, NoPayload, 0, "", StorageGet(id),
                  GetKind(id), GetValue(id), <<>>)
  /\ UNCHANGED <<fuelPumpStorage, now, nextId, removed, created>>

getAllFuelPumps ==
  /\ call' = Call("getAll", 0, NoCaller, NoPayload, 0, "", None, "Ok", StorageValues, <<>>)
  /\ UNCHANGED <<fuelPumpStorage, now, nextId, removed, created>>

\* mutant: the record is rebuilt from the payload as create builds it
UpdatedPump_Rebuilt(existingPump, payload) ==
  [id |-> existingPump.id, createdAt |-> existingPump.createdAt, updatedAt |-> <<now>>,
   status |-> "Active", transactions |-> <<>>, pumpNumber |-> payload.pumpNumber,
   fuelType |-> payload.fuelType, fuelQuantity |-> payload.fuelQuantity]

\* mutant: the update stamps createdAt as well
UpdatedPump_Restamped(existingPump, payload) ==
  [existingPump EXCEPT !.pumpNumber = payload.pumpNumber,
                       !.fuelType = payload.fuelType,
                       !.fuelQuantity = payload.fuelQuantity,
                       !.createdAt = now,
                       !.updatedAt = <<now>>]

\* { ...existingPump, ...payload, updatedAt: Opt.Some(ic.time()) }
UpdatedPump(existingPump, payload) ==
  [existingPump EXCEPT !.pumpNumber = payload.pumpNumber,
                       !.fuelType = payload.fuelType,
                       !.fuelQuantity = payload.fuelQuantity,
                       !.updatedAt = Some(now)]

updateFuelPump(id, payload, storeOk) ==
  /\ UNCHANGED <<now, nextId, removed, created>>
  /\ IF InvalidPayload(payload)
     THEN /\ call' = Call("update", id, NoCaller, payload, 0, "", StorageGet(id),
                          "InvalidInput", <<>>, <<>>)
          /\ UNCHANGED fuelPumpStorage
     ELSE IF StorageGet(id) = None
     THEN /\ call' = Call("update", id, NoCaller, payload, 0, "", None, "NotFound", <<>>, <<>>)
          /\ UNCHANGED fuelPumpStorage
     ELSE LET updatedPump == UpdatedPump(fuelPumpStorage[id], payload) IN
          IF storeOk
          THEN /\ fuelPumpStorage' = StorageInsert(updatedPump.id, updatedPump)
               /\ call' = Call("update", id, NoCaller, payload, 0, "", StorageGet(id),
                               "Ok", <<updatedPump>>, <<>>)
          ELSE /\ call' = Call("update", id, NoCaller, payload, 0, "", StorageGet(id),
                               "StorageError", <<>>, <<>>)
               /\ fuelPumpStorage' = RejectedInsert(updatedPump.id, updatedPump)

deleteFuelPump(id) ==
  /\ UNCHANGED <<now, nextId, created>>
  /\ IF StorageGet(id) = None
     THEN /\ call' = Call("delete", id, NoCaller, NoPayload, 0, "", None, "NotFound", <<>>, <<>>)
          /\ UNCHANGED <<fuelPumpStorage, removed>>
     ELSE /\ fuelPumpStorage' = StorageRemove(id)
          /\ removed' = removed \cup {id}
          /\ call' = Call("delete", id, NoCaller, NoPayload, 0, "", StorageGet(id),
                          "Ok", <<fuelPumpStorage[id]>>, <<>>)

\* mutant: the status check is left out
NotActive_Unguarded(fuelPump) == FALSE

\* mutant: only the statuses of the design count as not active
NotActive_OnlyKnown(fuelPump) == fuelPump.status \in {"Maintenance", "Out-of-Service"}

\* fuelPump.status !== "Active"
NotActive(fuelPump) == fuelPump.status # "Active"

\* mutant: the quantity check is left out
Insufficient_Unguarded(fuelPump, quantity) == FALSE

\* fuelPump.fuelQuantity < quantity
Insufficient(fuelPump, quantity) == Lt(fuelPump.fuelQuantity, quantity)

\* mutant: the transaction is recorded and the quantity is not taken off
DispensedPump_NoSubtract(fuelPump, quantity, caller) ==
  [fuelPump EXCEPT !.transactions = Append(fuelPump.transactions,
                       [timestamp |-> now, quantityDispensed |-> quantity, user |-> caller])]

\* mutant: the new transaction is put in front of the vector
DispensedPump_Prepended(fuelPump, quantity, caller) ==
  [fuelPump EXCEPT !.fuelQuantity = Sub(fuelPump.fuelQuantity, quantity),
                   !.transactions =
                       <<[timestamp |-> now, quantityDispensed |-> quantity, user |-> caller]>>
                         \o fuelPump.transactions]

\* the record dispenseFuel writes back
DispensedPump(fuelPump, quantity, caller) ==
  [fuelPump EXCEPT !.fuelQuantity = Sub(fuelPump.fuelQuantity, quantity),
                   !.transactions = Append(fuelPump.transactions,
                       [timestamp |-> now, quantityDispensed |-> quantity, user |-> caller])]

dispenseFuel(caller, id, quantity, storeOk) ==
  /\ UNCHANGED <<now, nextId, removed, created>>
  /\ IF StorageGet(id) = None
     THEN /\ call' = Call("dispense", id, caller, NoPayload, quantity, "", None,
                          "NotFound", <<>>, <<>>)
          /\ UNCHANGED fuelPumpStorage
     ELSE IF NotActive(fuelPumpStorage[id])
     THEN /\ call' = Call("dispense", id, caller, NoPayload, quantity, "", StorageGet(id),
                          "InvalidState", <<>>, <<>>)
          /\ UNCHANGED fuelPumpStorage
     ELSE IF Insufficient(fuelPumpStorage[id], quantity)
     THEN /\ call' = Call("dispense", id, caller, NoPayload, quantity, "", StorageGet(id),
                          "InsufficientQuantity", <<>>, <<>>)
          /\ UNCHANGED fuelPumpStorage
     ELSE LET fuelPump == DispensedPump(fuelPumpStorage[id], quantity, caller) IN
          IF storeOk
          THEN /\ fuelPumpStorage' = StorageInsert(fuelPump.id, fuelPump)
               /\ call' = Call("dispense", id, caller, NoPayload, quantity, "",
                               StorageGet(id), "Ok", <<fuelPump>>, <<>>)
          ELSE /\ call' = Call("dispense", id, caller, NoPayload, quantity, "",
                               StorageGet(id), "StorageError", <<>>, <<>>)
               /\ fuelPumpStorage' = RejectedInsert(fuelPump.id, fuelPump)

getFuelPumpTransactions(id) ==
  /\ UNCHANGED <<fuelPumpStorage, now, nextId, removed, created>>
  /\ IF StorageGet(id) = None
     THEN call' = Call("listTransactions", id, NoCaller, NoPayload, 0, "", None,
                       "NotFound", <<>>, <<>>)
     ELSE call' = Call("listTransactions", id, NoCaller, NoPayload, 0, "", StorageGet(id),
                       "Ok", <<>>, fuelPumpStorage[id].transactions)

\* mutant: a status change empties the pump
StatusPump_Drained(fuelPump, status) == [fuelPump EXCEPT !.status = status, !.fuelQuantity = 0]

\* the record setFuelPumpStatus writes back
StatusPump(fuelPump, status) == [fuelPump EXCEPT !.status = status]

setFuelPumpStatus(id, status, storeOk) ==
  /\ UNCHANGED <<now, nextId, removed, created>>
  /\ IF StorageGet(id) = None
     THEN /\ call' = Call("setStatus", id, NoCaller, NoPayload, 0, status, None,
                          "NotFound", <<>>, <<>>)
          /\ UNCHANGED fuelPumpStorage
     ELSE LET fuelPump == StatusPump(fuelPumpStorage[id], status) IN
          IF storeOk
          THEN /\ fuelPumpStorage' = StorageInsert(id, fuelPump)
               /\ call' = Call("setStatus", id, NoCaller, NoPayload, 0, status,
                               StorageGet(id), "Ok", <<fuelPump>>, <<>>)
          ELSE /\ call' = Call("setStatus", id, NoCaller, NoPayload, 0, status,
                               StorageGet(id), "StorageError", <<>>, <<>>)
               /\ fuelPumpStorage' = RejectedInsert(id, fuelPump)

\* ic.time() moves forward between calls and never within one
Tick ==
  /\ now < MaxTime
  /\ now' = now + 1
  /\ UNCHANGED <<fuelPumpStorage, nextId, call, removed, created>>

\* what bounds the exploration: a create that hands out an id is taken
\* while ids and room are left, a dispense that reaches the write while the
\* transactions vector is short
IdRoom(n) == nextId' # nextId => nextId <= n
LiveRoom(n) == nextId' # nextId => Cardinality(DOMAIN fuelPumpStorage) < n
TxRoom(n) ==
  call'.kind \in {"Ok", "StorageError"} => Len(fuelPumpStorage[call'.id].transactions) < n

Create ==
  \E p \in Payloads, ok \in BOOLEAN :
    createFuelPump(p, ok) /\ IdRoom(MaxIds) /\ LiveRoom(MaxLive)

Dispense ==
  \E c \in Callers, id \in Ids, q \in Quantities, ok \in BOOLEAN :
    dispenseFuel(c, id, q, ok) /\ TxRoom(MaxTx)

Next ==
  \/ Create
  \/ \E id \in Ids : getFuelPump(id)
  \/ getAllFuelPumps
  \/ \E id \in Ids, p \in Payloads, ok \in BOOLEAN : updateFuelPump(id, p, ok)
  \/ \E id \in Ids : deleteFuelPump(id)
  \/ Dispense
  \/ \E id \in Ids : getFuelPumpTransactions(id)
  \/ \E id \in Ids, s \in Statuses, ok \in BOOLEAN : setFuelPumpStatus(id, s, ok)
  \/ Tick

Spec == Init /\ [][Next]_vars

(* ---------------- the transaction log of one pump --------------------- *)
\* longest transactions vector of the pump of SpecLog
LogTx == 2
\* the fuelQuantity the pump of SpecLog is created and refilled with
LogQty == 2

LogCallers == Callers
LogQuantities == (-1..LogQty) \cup {NaN}
\* a status setFuelPumpStatus stores although no pump has it by design
LogStatuses == Statuses \cup {"Broken"}

LogCreate ==
  \E ok \in BOOLEAN :
    createFuelPump(Payload(1, "Diesel", LogQty), ok) /\ IdRoom(MaxLive) /\ LiveRoom(MaxLive)

\* an update refills the pump or sets it to a smaller fuelQuantity
LogUpdate ==
  \E id \in 1..MaxLive, q \in {1, LogQty} : updateFuelPump(id, Payload(1, "Diesel", q), TRUE)

LogDelete == \E id \in 1..MaxLive : deleteFuelPump(id)

LogDispense ==
  \E c \in LogCallers, id \in 1..MaxLive, q \in LogQuantities, ok \in BOOLEAN :
    dispenseFuel(c, id, q, ok) /\ TxRoom(LogTx)

LogSetStatus == \E id \in 1..MaxLive, s \in LogStatuses : setFuelPumpStatus(id, s, TRUE)

NextLog ==
  \/ LogCreate
  \/ LogUpdate
  \/ LogDelete
  \/ LogDispense
  \/ LogSetStatus
  \/ Tick

SpecLog == Init /\ [][NextLog]_vars

(* ------------------------ several pumps at once ------------------------ *)
\* number of pumps SpecMap creates and stores at once
MapIds == 2

MapPayloads == {Payload(1, "Diesel", MaxQty), Payload(1, "Diesel", 0)}

MapCreate ==
  \E p \in MapPayloads, ok \in BOOLEAN : createFuelPump(p, ok) /\ IdRoom(MapIds)

MapUpdate ==
  \E id \in 1..MapIds, ok \in BOOLEAN : updateFuelPump(id, Payload(1, "Premium", MaxQty), ok)

MapDispense ==
  \E id \in 1..MapIds, q \in {0, MaxQty}, ok \in BOOLEAN :
    dispenseFuel("alice", id, q, ok) /\ TxRoom(MaxTx)

NextMap ==
  \/ MapCreate
  \/ \E id \in 1..MapIds : getFuelPump(id)
  \/ getAllFuelPumps
  \/ MapUpdate
  \/ \E id \in 1..MapIds : deleteFuelPump(id)
  \/ MapDispense
  \/ \E id \in 1..MapIds : getFuelPumpTransactions(id)
  \/ \E id \in 1..MapIds, ok \in BOOLEAN : setFuelPumpStatus(id, "Maintenance", ok)
  \/ Tick

SpecMap == Init /\ [][NextMap]_vars

(* ------------------------------ claims --------------------------------- *)
\* the record the last call found under its id, and the one stored there now
HasPre == call.pre # None
Pre == call.pre[1]
Stored(id) == id \in DOMAIN fuelPumpStorage
Post == fuelPumpStorage[call.id]

\* the last call was a dispense on a stored Active pump with quantity <= fuelQuantity
DispenseFits ==
  /\ call.op = "dispense"
  /\ HasPre
  /\ Pre.status = "Active"
  /\ Leq(call.quantity, Pre.fuelQuantity)

\* the stored record shows the dispense: the quantity is taken off and one
\* transaction of the caller is appended
DispenseEffect ==
  /\ Stored(call.id)
  /\ Post.fuelQuantity = Pre.fuelQuantity - call.quantity
  /\ Len(Post.transactions) = Len(Pre.transactions) + 1
  /\ SubSeq(Post.transactions, 1, Len(Pre.transactions)) = Pre.transactions
  /\ Post.transactions[Len(Post.transactions)].quantityDispensed = call.quantity
  /\ Post.transactions[Len(Post.transactions)].user = call.caller

C2_FuelQuantityNonNegative ==
  \A id \in DOMAIN fuelPumpStorage : Leq(0, fuelPumpStorage[id].fuelQuantity)

\* the last call was a dispense on a stored pump that is not Active
DispenseInactive ==
  /\ call.op = "dispense"
  /\ HasPre
  /\ Pre.status # "Active"

\* C3: a dispense on a stored pump whose status is not Active fails with
\* InvalidState, whatever the quantity, and leaves fuelQuantity and
\* transactions as they were.
C3_InactiveDispenseFails ==
  DispenseInactive =>
    /\ call.kind = "InvalidState"
    /\ Stored(call.id)
    /\ Post.fuelQuantity = Pre.fuelQuantity
    /\ Post.transactions = Pre.transactions

C3_Witness ==
  /\ DispenseInactive
  /\ call.kind = "InvalidState"
  /\ Lt(Pre.fuelQuantity, call.quantity)
  /\ Pre.transactions # <<>>

\* the last call was a dispense on a stored Active pump with quantity > fuelQuantity
DispenseTooMuch ==
  /\ call.op = "dispense"
  /\ HasPre
  /\ Pre.status = "Active"
  /\ Lt(Pre.fuelQuantity, call.quantity)

\* C4: a dispense of q > fuelQuantity on an Active pump fails with
\* InsufficientQuantity and the stored record is the same as before.
C4_TooMuchDispenseFails ==
  DispenseTooMuch =>
    /\ call.kind = "InsufficientQuantity"
    /\ Stored(call.id)
    /\ Post = Pre

C4_Witness ==
  /\ DispenseTooMuch
  /\ call.kind = "InsufficientQuantity"
  /\ Pre.fuelQuantity = 0
  /\ Pre.transactions # <<>>

\* a payload of create with fuelQuantity 0 or a falsy pumpNumber or fuelType
FalsyPayload(payload) ==
  \/ payload.fuelQuantity = 0
  \/ ~TruthyNum(payload.pumpNumber)
  \/ ~TruthyStr(payload.fuelType)

\* C5: a create whose payload has fuelQuantity 0, or a falsy pumpNumber or
\* fuelType, returns InvalidInput and the map holds the same records after
\* the call as before.
C5_FalsyCreateRejected ==
  [][(call'.op = "create" /\ FalsyPayload(call'.payload))
       => (call'.kind = "InvalidInput" /\ fuelPumpStorage' = fuelPumpStorage)]_vars

C5_Witness ==
  /\ call.op = "create"
  /\ call.payload.pumpNumber = 0
  /\ call.payload.fuelQuantity = -1
  /\ call.kind = "InvalidInput"
  /\ fuelPumpStorage # << >>

\* C6: no call ends in an uncaught fault, and a create whose fuelQuantity is
\* not greater than zero returns InvalidInput.
C6_NoUncaughtFault ==
  /\ call.kind # "Fault"
  /\ (call.op = "create" /\ ~Lt(0, call.payload.fuelQuantity)) => call.kind = "InvalidInput"

\* the last call was a create with pumpNumber and fuelType present and fuelQuantity > 0
CreateValid ==
  /\ call.op = "create"
  /\ TruthyNum(call.payload.pumpNumber)
  /\ TruthyStr(call.payload.fuelType)
  /\ Lt(0, call.payload.fuelQuantity)

\* the id of the create was in the map neither just before nor ever, and get(id)
\* now returns an Active record with no transactions, no updatedAt and the
\* payload's fields
CreateStored ==
  /\ ~HasPre
  /\ call.id \notin removed
  /\ GetKind(call.id) = "Ok"
  /\ Len(GetValue(call.id)) = 1
  /\ LET got == GetValue(call.id)[1] IN
       /\ got.id = call.id
       /\ got.status = "Active"
       /\ got.transactions = <<>>
       /\ got.updatedAt = None
       /\ got.pumpNumber = call.payload.pumpNumber
       /\ got.fuelType = call.payload.fuelType
       /\ got.fuelQuantity = call.payload.fuelQuantity

\* C7 (as stated): every valid create succeeds with a fresh id, and get(id)
\* right after returns an Active record with no transactions, no updatedAt and
\* the payload's pumpNumber, fuelType and fuelQuantity.
C7_ValidCreateAlwaysSucceeds == CreateValid => (call.kind = "Ok" /\ CreateStored)

\* C7 (amended): every valid create either succeeds that way, or the store
\* rejects the write, the call returns the storage error and no record is
\* stored under the id.
C7_ValidCreateSucceedsOrStoreFails ==
  CreateValid =>
    \/ call.kind = "Ok" /\ CreateStored
    \/ call.kind = "StorageError" /\ GetKind(call.id) = "NotFound"

C7_Witness ==
  /\ CreateValid
  /\ call.kind = "Ok"
  /\ call.id = 2
  /\ 1 \in removed
  /\ call.payload.fuelType = "Premium"

\* C8: after a successful update, dispense or setStatus the pump's updatedAt
\* is present and equals the clock of the call.
C8_UpdatedAtSet ==
  (call.op \in {"update", "dispense", "setStatus"} /\ call.kind = "Ok")
    => (Stored(call.id) /\ Post.updatedAt = Some(call.time))

\* the operations that take an id
IdOps == {"get", "update", "dispense", "listTransactions", "setStatus", "delete"}

\* a delete on a stored pump succeeds, returns the record that was stored and
\* removes it
DeleteReturnsStored ==
  (call.op = "delete" /\ HasPre)
    => (call.kind = "Ok" /\ call.value = call.pre /\ ~Stored(call.id))

\* C9 (as stated): delete on a stored pump succeeds and returns the stored
\* record; from then on the id is never stored again and every get, update,
\* dispense, listTransactions, setStatus and delete on it fails with NotFound.
C9_DeletedIdIsNotFound ==
  /\ DeleteReturnsStored
  /\ \A id \in removed : ~Stored(id)
  /\ (call.op \in IdOps /\ call.id \in removed /\ ~HasPre) => call.kind = "NotFound"

\* C9 (amended): as stated, except that an update on the deleted id whose
\* payload has a falsy field fails with InvalidInput; with a payload that
\* passes the payload check it fails with NotFound.
C9_DeletedIdNeverResolves ==
  /\ DeleteReturnsStored
  /\ \A id \in removed : ~Stored(id)
  /\ (call.op \in IdOps /\ call.id \in removed /\ ~HasPre) =>
       IF call.op = "update" /\ (FalsyPayload(call.payload) \/ IsNaN(call.payload.fuelQuantity))
       THEN call.kind = "InvalidInput"
       ELSE call.kind = "NotFound"

C9_Witness ==
  /\ call.op = "update"
  /\ call.id = 1
  /\ 1 \in removed
  /\ call.kind = "NotFound"
  /\ Stored(2)

\* C10: a successful update leaves id, createdAt, status and transactions as
\* they were and sets pumpNumber, fuelType and fuelQuantity to the payload's.
C10_UpdateFrame ==
  (call.op = "update" /\ call.kind = "Ok") =>
    /\ HasPre
    /\ Stored(call.id)
    /\ Post.id = Pre.id
    /\ Post.createdAt = Pre.createdAt
    /\ Post.status = Pre.status
    /\ Post.transactions = Pre.transactions
    /\ Post.pumpNumber = call.payload.pumpNumber
    /\ Post.fuelType = call.payload.fuelType
    /\ Post.fuelQuantity = call.payload.fuelQuantity

C10_Witness ==
  /\ call.op = "update"
  /\ call.kind = "Ok"
  /\ Pre.status = "Maintenance"
  /\ Pre.transactions # <<>>
  /\ Pre.fuelType # call.payload.fuelType
  /\ Pre.fuelQuantity # call.payload.fuelQuantity
  /\ Pre.createdAt < call.time

\* the ids stored before and after a step
Kept == DOMAIN fuelPumpStorage \cap DOMAIN fuelPumpStorage'

IsPrefix(s, t) == Len(s) <= Len(t) /\ SubSeq(t, 1, Len(s)) = s

Chronological(txs) == \A i \in 1..(Len(txs) - 1) : txs[i].timestamp <= txs[i + 1].timestamp

\* C11: the transactions of a pump are append-only: while the pump is stored,
\* every step leaves the old sequence as a prefix of the new one, and the
\* timestamps are non-decreasing in sequence order.
C11_LogAppendOnly ==
  [][\A id \in Kept :
       /\ IsPrefix(fuelPumpStorage[id].transactions, fuelPumpStorage'[id].transactions)
       /\ Chronological(fuelPumpStorage'[id].transactions)]_vars

C11_Witness ==
  \E id \in DOMAIN fuelPumpStorage :
    /\ Len(fuelPumpStorage[id].transactions) = 2
    /\ fuelPumpStorage[id].transactions[1].timestamp < fuelPumpStorage[id].transactions[2].timestamp
    /\ fuelPumpStorage[id].updatedAt # None
    /\ fuelPumpStorage[id].status = "Maintenance"

\* C12: with the clock moving forward only, createdAt of a stored pump never
\* changes, and updatedAt, once present, stays present and never decreases.
C12_StampsMonotonic ==
  [][\A id \in Kept :
       /\ fuelPumpStorage'[id].createdAt = fuelPumpStorage[id].createdAt
       /\ fuelPumpStorage[id].updatedAt # None =>
            /\ fuelPumpStorage'[id].updatedAt # None
            /\ fuelPumpStorage[id].updatedAt[1] <= fuelPumpStorage'[id].updatedAt[1]]_vars

C12_Witness ==
  /\ call.op = "update"
  /\ call.kind = "Ok"
  /\ Pre.updatedAt = Some(0)
  /\ Post.updatedAt = Some(MaxTime)
  /\ Post.createdAt = 0

\* C13: every stored transaction has quantityDispensed > 0.
C13_PositiveQuantities ==
  \A id \in DOMAIN fuelPumpStorage :
    \A i \in 1..Len(fuelPumpStorage[id].transactions) :
      Lt(0, fuelPumpStorage[id].transactions[i].quantityDispensed)

\* the error kinds an operation returns
Errors == {"NotFound", "InvalidInput", "InvalidState", "InsufficientQuantity", "StorageError"}

\* C14: when an operation returns an error, the map is the same after the call
\* as before it.
C14_ErrorsLeaveMap ==
  [][call'.kind \in Errors => fuelPumpStorage' = fuelPumpStorage]_vars

C14_Witness ==
  /\ call.op = "dispense"
  /\ call.kind = "StorageError"
  /\ call.quantity = MaxQty
  /\ Stored(call.id)
  /\ Post = Pre

\* C15: every operation leaves the records under other ids than its own as they
\* were, a create leaves every record stored before as it was, and get, listAll
\* and listTransactions leave the map as it was.
C15_OneRecordPerCall ==
  [][/\ \A id \in DOMAIN fuelPumpStorage :
          id # call'.id => (id \in DOMAIN fuelPumpStorage' /\
                            fuelPumpStorage'[id] = fuelPumpStorage[id])
     /\ \A id \in DOMAIN fuelPumpStorage' \ DOMAIN fuelPumpStorage :
          call'.op = "create" /\ call'.id = id
     /\ call'.op \in {"get", "getAll", "listTransactions"} =>
          fuelPumpStorage' = fuelPumpStorage]_vars

C15_Witness ==
  /\ call.op = "dispense"
  /\ call.kind = "Ok"
  /\ call.id = 1
  /\ Stored(2)
  /\ fuelPumpStorage[2].status = "Maintenance"
  /\ fuelPumpStorage[2].updatedAt # None

C17_NoOverdraw ==
  [][(call'.op = "dispense" /\ call'.kind = "Ok" /\ fuelPumpStorage' # fuelPumpStorage) =>
       /\ call'.id \in Kept
       /\ ~Lt(fuelPumpStorage[call'.id].fuelQuantity, call'.quantity)
       /\ ~Lt(fuelPumpStorage'[call'.id].fuelQuantity, 0)]_vars

C17_Witness ==
  /\ call.op = "dispense"
  /\ call.kind = "InsufficientQuantity"
  /\ call.caller = "bob"
  /\ call.quantity = 1
  /\ Len(Pre.transactions) = 1
  /\ Pre.transactions[1].user = "alice"
  /\ Pre.transactions[1].quantityDispensed = LogQty

\* C18 (as stated): a step that lowers the fuelQuantity of a pump that stays
\* stored is a successful dispense on that pump.
C18_OnlyDispenseLowers ==
  [][\A id \in Kept :
       Lt(fuelPumpStorage'[id].fuelQuantity, fuelPumpStorage[id].fuelQuantity) =>
         (call'.op = "dispense" /\ call'.kind = "Ok" /\ call'.id = id)]_vars

\* C18 (amended): such a step is a successful dispense on that pump or a
\* successful update of that pump; no setStatus lowers it.
C18_OnlyDispenseOrUpdateLowers ==
  [][\A id \in Kept :
       Lt(fuelPumpStorage'[id].fuelQuantity, fuelPumpStorage[id].fuelQuantity) =>
         (call'.op \in {"dispense", "update"} /\ call'.kind = "Ok" /\ call'.id = id)]_vars

C18_Witness ==
  /\ call.op = "update"
  /\ call.kind = "Ok"
  /\ Lt(Post.fuelQuantity, Pre.fuelQuantity)
  /\ Lt(0, Post.fuelQuantity)
  /\ Pre.transactions = <<>>

\* the status of a stored pump changes in a successful setStatus on it only,
\* which changes the status and none of fuelQuantity, transactions, id, createdAt
StatusSetOnly ==
  /\ \A id \in Kept :
       fuelPumpStorage'[id].status # fuelPumpStorage[id].status =>
         (call'.op = "setStatus" /\ call'.kind = "Ok" /\ call'.id = id)
  /\ (call'.op = "setStatus" /\ call'.kind = "Ok") =>
       /\ call'.id \in Kept
       /\ fuelPumpStorage'[call'.id].status = call'.status
       /\ fuelPumpStorage'[call'.id].fuelQuantity = fuelPumpStorage[call'.id].fuelQuantity
       /\ fuelPumpStorage'[call'.id].transactions = fuelPumpStorage[call'.id].transactions
       /\ fuelPumpStorage'[call'.id].id = fuelPumpStorage[call'.id].id
       /\ fuelPumpStorage'[call'.id].createdAt = fuelPumpStorage[call'.id].createdAt

\* a dispense on a pump whose status is not "Active" fails and changes nothing
GatedWhileInactive ==
  (call'.op = "dispense" /\ call'.id \in DOMAIN fuelPumpStorage
     /\ fuelPumpStorage[call'.id].status # "Active") =>
    (call'.kind \in Errors /\ fuelPumpStorage' = fuelPumpStorage)

\* a dispense of q <= fuelQuantity on a pump whose status is "Active"
FitsWhileActive ==
  /\ call'.op = "dispense"
  /\ call'.id \in DOMAIN fuelPumpStorage
  /\ fuelPumpStorage[call'.id].status = "Active"
  /\ Leq(call'.quantity, fuelPumpStorage[call'.id].fuelQuantity)
  /\ <<fuelPumpStorage, call>>' # <<fuelPumpStorage, call>>

\* C19 (as stated): the status set by the last successful setStatus gates
\* dispense: while it is not "Active" every dispense fails and changes nothing,
\* once it is "Active" again every dispense of q <= fuelQuantity succeeds, and
\* setStatus changes the status only.
C19_StatusGatesDispense ==
  [][/\ StatusSetOnly
     /\ GatedWhileInactive
     /\ FitsWhileActive => call'.kind = "Ok"]_vars

\* C19 (amended): as stated, except that a dispense of q <= fuelQuantity on an
\* Active pump fails with the storage error, and changes nothing, when the
\* store rejects the write.
C19_StatusGatesDispenseUnlessStoreFails ==
  [][/\ StatusSetOnly
     /\ GatedWhileInactive
     /\ FitsWhileActive =>
          \/ call'.kind = "Ok" /\ fuelPumpStorage' # fuelPumpStorage
          \/ call'.kind = "StorageError" /\ fuelPumpStorage' = fuelPumpStorage]_vars

C19_Witness ==
  /\ DispenseInactive
  /\ call.kind = "InvalidState"
  /\ Pre.status = "Broken"
  /\ Leq(call.quantity, Pre.fuelQuantity)
  /\ Len(Pre.transactions) = 1

\* a + b on numbers
Add(a, b) == IF IsNaN(a) \/ IsNaN(b) THEN NaN ELSE a + b

RECURSIVE SumDispensed(_)
SumDispensed(txs) ==
  IF txs = <<>> THEN 0
  ELSE Add(txs[1].quantityDispensed, SumDispensed(Tail(txs)))

\* what a pump holds and has dispensed
Total(fuelPump) == Add(fuelPump.fuelQuantity, SumDispensed(fuelPump.transactions))

\* C20: fuel is conserved between updates: a new pump holds the payload's
\* fuelQuantity and has dispensed nothing, and every step other than a
\* successful update of the pump leaves fuelQuantity plus the sum of
\* quantityDispensed over its transactions as it was.
C20_FuelConserved ==
  [][/\ \A id \in DOMAIN fuelPumpStorage' \ DOMAIN fuelPumpStorage :
          Total(fuelPumpStorage'[id]) = call'.payload.fuelQuantity
     /\ \A id \in Kept :
          ~(call'.op = "update" /\ call'.kind = "Ok" /\ call'.id = id) =>
            (/\ ~IsNaN(Total(fuelPumpStorage'[id]))
             /\ Total(fuelPumpStorage'[id]) = Total(fuelPumpStorage[id]))]_vars

====
